---- MODULE Spec2Model ----
(***************************************************************************)
(* A model of pdf_handler.py: header matching, HTTP acquisition, the       *)
(* extract / group / merge / write pipeline of process_pdf, and the two    *)
(* orchestrators process_uploaded_pdf and process_extracted_pdfs.          *)
(*                                                                         *)
(* Text is modelled as a sequence of one-character strings, so that        *)
(* strip(), lower(), re.sub(), slicing and concatenation are computed.     *)
(* A path is a sequence of components, each component a text.              *)
(***************************************************************************)
EXTENDS Integers, Sequences, FiniteSets, TLC

VARIABLES
    call,           \* the invocation under way: the function and its arguments
    backend,        \* the raw tables page.extract_tables() may yield
    pc,             \* the control point of the invocation
    ret,            \* the value returned (or the exception raised) by the call
    files,          \* the file system: path -> content
    created_files,  \* the caller-supplied tracking set
    doc_i,          \* process_extracted_pdfs: 1-based index of the document
    file_path,      \* process_pdf: its file_path argument
    yielded,        \* per process_pdf call so far: what the backend yielded
    tables,         \* process_pdf: the qualifying tables, in extraction order
    groups,         \* process_pdf: the header groups, in creation order
    generated_csvs, \* process_pdf: paths written so far
    infos,          \* table_infos / extracted_infos of the orchestrator
    resp            \* the HTTP response of the request under way

vars == <<call, backend, pc, ret, files, created_files, doc_i, file_path,
          yielded, tables, groups, generated_csvs, infos, resp>>

-----------------------------------------------------------------------------
(* Text primitives                                                          *)

UpperChars == <<"A", "B", "C", "D", "E", "F", "G", "H", "I", "J", "K", "L", "M",
                "N", "O", "P", "Q", "R", "S", "T", "U", "V", "W", "X", "Y", "Z">>

LowerChars == <<"a", "b", "c", "d", "e", "f", "g", "h", "i", "j", "k", "l", "m",
                "n", "o", "p", "q", "r", "s", "t", "u", "v", "w", "x", "y", "z">>

DigitChars == <<"0", "1", "2", "3", "4", "5", "6", "7", "8", "9">>

Range(s) == {s[i] : i \in DOMAIN s}

Whitespace == {" ", "\t", "\n", "\r"}

\* str.lower() on one character
LowerChar(c) ==
    IF \E i \in DOMAIN UpperChars : UpperChars[i] = c
    THEN LowerChars[CHOOSE i \in DOMAIN UpperChars : UpperChars[i] = c]
    ELSE c

\* str.lower()
Lower(s) == [i \in DOMAIN s |-> LowerChar(s[i])]

RECURSIVE LStrip(_)
LStrip(s) ==
    IF s # <<>> /\ Head(s) \in Whitespace THEN LStrip(Tail(s)) ELSE s

RECURSIVE RStrip(_)
RStrip(s) ==
    IF s # <<>> /\ s[Len(s)] \in Whitespace
    THEN RStrip(SubSeq(s, 1, Len(s) - 1))
    ELSE s

\* str.strip()
Strip(s) == RStrip(LStrip(s))

\* A header cell pdfplumber could not read is None; it is kept apart from
\* every text by being the one cell whose single element is not a character.
NoneCell == <<"None">>

\* the fill value pandas uses for a missing cell
NaNCell == <<"NaN">>

\* str(c) of a header cell
Str(c) == IF c = NoneCell THEN <<"N", "o", "n", "e">> ELSE c

\* the comprehension [str(c).strip().lower() for c in cols]
NormCols(cols) == [i \in DOMAIN cols |-> Lower(Strip(Str(cols[i])))]

\* the comparison zip() would make: position by position over the shorter list
ColumnsMatchPrefix(cols1, cols2) ==
    \A i \in (DOMAIN cols1) \cap (DOMAIN cols2) :
        NormCols(cols1)[i] = NormCols(cols2)[i]

\* columns_match(cols1, cols2): equality of the two normalised lists
columns_match(cols1, cols2) == NormCols(cols1) = NormCols(cols2)

-----------------------------------------------------------------------------
(* Paths and file names                                                     *)

Min(a, b) == IF a < b THEN a ELSE b

\* index of the last occurrence of character c in s, 0 when there is none
LastIndexOf(s, c) ==
    IF \E i \in DOMAIN s : s[i] = c
    THEN CHOOSE i \in DOMAIN s : s[i] = c /\ \A j \in DOMAIN s : s[j] = c => j <= i
    ELSE 0

\* index of the first occurrence of character c in s, 0 when there is none
FirstIndexOf(s, c) ==
    IF \E i \in DOMAIN s : s[i] = c
    THEN CHOOSE i \in DOMAIN s : s[i] = c /\ \A j \in DOMAIN s : s[j] = c => i <= j
    ELSE 0

\* os.path.basename of a path: its last component
Basename(path) == IF path = <<>> THEN <<>> ELSE path[Len(path)]

\* os.path.splitext(name)[0]: the name up to its last dot, unless that dot
\* is preceded by dots only
SplitExtRoot(name) ==
    LET d == LastIndexOf(name, ".") IN
    IF d > 0 /\ \E j \in 1..(d - 1) : name[j] # "."
    THEN SubSeq(name, 1, d - 1)
    ELSE name

\* os.path.join(dir, name) for a name that holds no separator
PathJoin(dir, name) == Append(dir, name)

\* tempfile.gettempdir()
TempDir == << <<"/">>, <<"t", "m", "p">> >>

\* os.path.normpath: drops "." components, folds "name/.." pairs
RECURSIVE NormFold(_, _)
NormFold(done, rest) ==
    IF rest = <<>> THEN done
    ELSE LET c == Head(rest) IN
         IF c = <<".">> THEN NormFold(done, Tail(rest))
         ELSE IF c = <<".", ".">> /\ done # <<>>
                 /\ done[Len(done)] \notin {<<".", ".">>, <<"/">>}
              THEN NormFold(SubSeq(done, 1, Len(done) - 1), Tail(rest))
              ELSE IF c = <<".", ".">> /\ done # <<>> /\ done[Len(done)] = <<"/">>
                   THEN NormFold(done, Tail(rest))
                   ELSE NormFold(Append(done, c), Tail(rest))

NormPath(path) ==
    LET n == NormFold(<<>>, path) IN IF n = <<>> THEN << <<".">> >> ELSE n

\* str(n) of a natural number
RECURSIVE IntStr(_)
IntStr(n) ==
    IF n < 10 THEN <<DigitChars[n + 1]>>
    ELSE IntStr(n \div 10) \o <<DigitChars[(n % 10) + 1]>>

SafeChars == Range(UpperChars) \cup Range(LowerChars) \cup Range(DigitChars) \cup {"_"}

RECURSIVE DropUnsafe(_)
DropUnsafe(s) ==
    IF s # <<>> /\ Head(s) \notin SafeChars THEN DropUnsafe(Tail(s)) ELSE s

\* re.sub(r'[^A-Za-z0-9_]+', '_', s): scanning left to right, each greedy
\* match of the class is replaced by one underscore
RECURSIVE ReSubUnsafe(_)
ReSubUnsafe(s) ==
    IF s = <<>> THEN <<>>
    ELSE IF Head(s) \in SafeChars
         THEN <<Head(s)>> \o ReSubUnsafe(Tail(s))
         ELSE <<"_">> \o ReSubUnsafe(DropUnsafe(s))

\* the slice bound of [:20]
SafePartLen == 20

\* s[:k]
Slice(s, k) == SubSeq(s, 1, Min(Len(s), k))

-----------------------------------------------------------------------------
(* process_pdf: tables, groups, merge, file names                           *)

\* the guard with "len(table) > 0"
QualifiesNonEmpty(table) == Len(table) > 0

\* the guard "table and len(table) > 1"
Qualifies(table) == table # <<>> /\ Len(table) > 1

Max(a, b) == IF a > b THEN a ELSE b

RECURSIVE MaxRowLen(_)
MaxRowLen(rows) ==
    IF rows = <<>> THEN 0 ELSE Max(Len(Head(rows)), MaxRowLen(Tail(rows)))

\* pd.DataFrame(table[1:], columns=table[0]) raises ValueError when the widest
\* body row does not have as many cells as the header
DataFrameRaises(table) ==
    Len(table) > 1 /\ MaxRowLen(Tail(table)) # Len(table[1])

\* pd.DataFrame(table[1:], columns=table[0]); a shorter row is padded with None
DataFrame(table) ==
    [columns |-> table[1],
     rows    |-> [r \in 1..(Len(table) - 1) |->
                    [c \in 1..Len(table[1]) |->
                        IF c <= Len(table[r + 1]) THEN table[r + 1][c] ELSE NoneCell]]]

\* one element of raw_tables
RawTable(i, df) == [table_number |-> i, columns |-> df.columns, dataframe |-> df]

\* the groups whose reference header matches tbl's, by index
Matching(gs, tbl) ==
    {k \in DOMAIN gs : columns_match(tbl.columns, gs[k].reference_columns)}

\* groups.insert(0, ...) in place of groups.append(...)
GroupStepPrepend(gs, tbl) ==
    IF Matching(gs, tbl) # {}
    THEN LET k == CHOOSE m \in Matching(gs, tbl) : \A o \in Matching(gs, tbl) : m <= o
         IN [gs EXCEPT ![k].tables = Append(@, tbl)]
    ELSE <<[reference_columns |-> tbl.columns, tables |-> <<tbl>>]>> \o gs

\* one iteration of "for tbl in raw_tables": the inner loop appends tbl to the
\* first matching group and breaks; otherwise a new group is appended
GroupStep(gs, tbl) ==
    IF Matching(gs, tbl) # {}
    THEN LET k == CHOOSE m \in Matching(gs, tbl) : \A o \in Matching(gs, tbl) : m <= o
         IN [gs EXCEPT ![k].tables = Append(@, tbl)]
    ELSE Append(gs, [reference_columns |-> tbl.columns, tables |-> <<tbl>>])

\* number of tables the grouping loop has placed
RECURSIVE Placed(_)
Placed(gs) == IF gs = <<>> THEN 0 ELSE Len(Head(gs).tables) + Placed(Tail(gs))

HasDuplicates(cols) == \E i, j \in DOMAIN cols : i # j /\ cols[i] = cols[j]

SameColumns(dfs) == \A i \in DOMAIN dfs : dfs[i].columns = dfs[1].columns

\* pd.concat raises InvalidIndexError when the frames' column indexes differ
\* and one of them holds a label twice
ConcatRaises(dfs) ==
    ~SameColumns(dfs) /\ \E i \in DOMAIN dfs : HasDuplicates(dfs[i].columns)

\* the labels of cols not yet in acc, appended in order
RECURSIVE AddLabels(_, _)
AddLabels(acc, cols) ==
    IF cols = <<>> THEN acc
    ELSE IF Head(cols) \in Range(acc)
         THEN AddLabels(acc, Tail(cols))
         ELSE AddLabels(Append(acc, Head(cols)), Tail(cols))

\* the union of the frames' column labels, in first-seen order (join="outer",
\* sort=False)
RECURSIVE UnionColumns(_, _)
UnionColumns(acc, dfs) ==
    IF dfs = <<>> THEN acc
    ELSE UnionColumns(AddLabels(acc, Head(dfs).columns), Tail(dfs))

\* a frame's rows laid out under cols: each cell under its own label, NaN
\* under a label the frame does not have
Reindex(df, cols) ==
    [r \in DOMAIN df.rows |->
        [c \in DOMAIN cols |->
            IF \E j \in DOMAIN df.columns : df.columns[j] = cols[c]
            THEN df.rows[r][CHOOSE j \in DOMAIN df.columns : df.columns[j] = cols[c]]
            ELSE NaNCell]]

RECURSIVE StackRows(_)
StackRows(dfs) ==
    IF dfs = <<>> THEN <<>> ELSE Head(dfs).rows \o StackRows(Tail(dfs))

RECURSIVE ConcatRows(_, _)
ConcatRows(dfs, cols) ==
    IF dfs = <<>> THEN <<>>
    ELSE Reindex(Head(dfs), cols) \o ConcatRows(Tail(dfs), cols)

\* pd.concat([...], ignore_index=True): frames with one and the same column
\* index are stacked; otherwise they are aligned on the union of the labels
Concat(dfs) ==
    IF SameColumns(dfs)
    THEN [columns |-> dfs[1].columns, rows |-> StackRows(dfs)]
    ELSE LET cols == UnionColumns(<<>>, dfs)
         IN [columns |-> cols, rows |-> ConcatRows(dfs, cols)]

\* the dataframes of a group's member tables
MemberFrames(grp) == [i \in DOMAIN grp.tables |-> grp.tables[i].dataframe]

\* the name given to a group when its header is empty: f"group_{g_idx}"
GroupLabel(g_idx) == <<"g", "r", "o", "u", "p", "_">> \o IntStr(g_idx)

\* first_col of a group
FirstCol(grp, g_idx) ==
    IF grp.reference_columns # <<>> THEN grp.reference_columns[1] ELSE GroupLabel(g_idx)

\* safe_part: re.sub(...)[:20] without the slice
SafePartUncut(first_col) == ReSubUnsafe(Str(first_col))

\* safe_part: re.sub(r'[^A-Za-z0-9_]+', '_', str(first_col))[:20]
SafePart(first_col) == Slice(ReSubUnsafe(Str(first_col)), SafePartLen)

\* safe_part without the "or 'group'"
FragmentNoFallback(safe_part) == safe_part

\* safe_part or 'group'
Fragment(safe_part) ==
    IF safe_part # <<>> THEN safe_part ELSE <<"g", "r", "o", "u", "p">>

CsvExt == <<".", "c", "s", "v">>

\* csv_filename of the group at 1-based index g_idx among ngroups groups
CsvFilename(output_dir, base_name, grp, g_idx, ngroups) ==
    IF ngroups = 1
    THEN PathJoin(output_dir, base_name \o CsvExt)
    ELSE PathJoin(output_dir,
                  base_name \o <<"_">> \o Fragment(SafePart(FirstCol(grp, g_idx)))
                            \o <<"_">> \o IntStr(g_idx) \o CsvExt)

\* base_name of a document
BaseName(path) == SplitExtRoot(Basename(path))

\* what to_csv leaves in the file
CsvFile(df) == [kind |-> "csv", columns |-> df.columns, rows |-> df.rows]

\* df.shape of pd.read_csv(path)
ReadCsvShape(content) == <<Len(content.rows), Len(content.columns)>>

-----------------------------------------------------------------------------
(* HTTP acquisition helpers                                                 *)

StartsWith(s, prefix) ==
    Len(s) >= Len(prefix) /\ SubSeq(s, 1, Len(prefix)) = prefix

\* "sub in s"
Contains(s, sub) ==
    \E i \in 1..(Len(s) - Len(sub) + 1) : SubSeq(s, i, i + Len(sub) - 1) = sub

RECURSIVE LStripChar(_, _)
LStripChar(s, c) ==
    IF s # <<>> /\ Head(s) = c THEN LStripChar(Tail(s), c) ELSE s

RECURSIVE RStripChar(_, _)
RStripChar(s, c) ==
    IF s # <<>> /\ s[Len(s)] = c THEN RStripChar(SubSeq(s, 1, Len(s) - 1), c) ELSE s

\* url.split("?")[0]
BeforeQuery(url) ==
    LET q == FirstIndexOf(url, "?") IN
    IF q = 0 THEN url ELSE SubSeq(url, 1, q - 1)

\* os.path.basename of a text: what follows its last "/"
TextBasename(s) == SubSeq(s, LastIndexOf(s, "/") + 1, Len(s))

\* filename of download_pdf_from_url
DownloadFilename(url) ==
    LET b == TextBasename(BeforeQuery(url)) IN
    IF b # <<>> THEN b ELSE <<"d", "o", "w", "n", "l", "o", "a", "d", "e", "d", ".", "p", "d", "f">>

\* the status test of both fetchers: "resp.status != 200"
FetchFailed(status) == status # 200

\* the link a selected href contributes
ResolveLink(url, href) ==
    IF StartsWith(href, <<"h", "t", "t", "p">>) THEN href
    ELSE RStripChar(url, "/") \o <<"/">> \o LStripChar(href, "/")

\* the for loop over soup.find_all("a", href=True)
RECURSIVE PdfLinks(_, _)
PdfLinks(url, hrefs) ==
    IF hrefs = <<>> THEN <<>>
    ELSE IF Contains(Lower(Head(hrefs)), <<".", "p", "d", "f">>)
         THEN <<ResolveLink(url, Head(hrefs))>> \o PdfLinks(url, Tail(hrefs))
         ELSE PdfLinks(url, Tail(hrefs))

\* the orders list(set(...)) may give: every arrangement of the distinct links
ListOfSet(S) == {l \in [1..Cardinality(S) -> S] : Range(l) = S}

-----------------------------------------------------------------------------
(* Bounds and the inputs drawn within them                                  *)

\* raw tables one document yields, at most
MaxTables == 3

\* raw tables one document of a batch yields, at most
MaxBatchTables == 2

\* documents in one call of process_extracted_pdfs, at most
MaxDocs == 2

\* anchors on a fetched page, at most
MaxAnchors == 2

\* the sequences over S of length at most n
SeqsUpTo(S, n) == UNION {[1..k -> S] : k \in 0..n}

\* headers handed to columns_match
Headers ==
    {<<<<"N", "a", "m", "e">>, <<" ", "a", "g", "e", " ">>>>,
     <<<<"n", "a", "m", "e">>, <<"A", "G", "E">>>>,
     <<<<"a", "g", "e">>, <<"n", "a", "m", "e">>>>,
     <<<<"n", "a", "m", "e">>>>,
     <<>>,
     <<NoneCell>>,
     <<<<"N", "o", "n", "e">>>>,
     <<<<" ", "n", "a", "m", "e", "\t">>>>,
     <<<<"A">>, <<"A">>>>,
     <<<<"a">>, <<"A">>>>,
     <<<<>>>>,
     <<<<" ">>>>}

TablePeople ==
    <<<<<<"N", "a", "m", "e">>, <<"A", "g", "e">>>>,
     <<<<"a", "1">>, <<"3", "0">>>>,
     <<<<"b", "2">>, <<"2", "5">>>>>>

TablePeopleMore ==
    <<<<<<"n", "a", "m", "e">>, <<" ", "A", "G", "E", " ">>>>,
     <<<<"c", "3">>, <<"4", "0">>>>>>

TableSymbols ==
    <<<<<<"#", "$">>, <<"Y">>>>,
     <<<<"s", "1">>, <<"s", "2">>>>>>

TableBlankName ==
    <<<<<<>>>>,
     <<<<"e", "1">>>>>>

TableLongName ==
    <<<<<<"Q", "u", "a", "n", "t", "i", "t", "y", " ", "p", "e", "r", " ", "u", "n", "i", "t", ",", " ", "k", "g", "/", "E", "U", "R">>>>,
     <<<<"q", "1">>>>>>

TableNoneName ==
    <<<<NoneCell>>,
     <<<<"n", "1">>>>>>

TableTwins ==
    <<<<<<"A">>, <<"A">>>>,
     <<<<"t", "1">>, <<"t", "2">>>>>>

TableTwinsMore ==
    <<<<<<"a">>, <<"A">>>>,
     <<<<"t", "3">>, <<"t", "4">>>>>>

TableHeaderOnly ==
    <<<<<<"N", "a", "m", "e">>, <<"A", "g", "e">>>>>>

TableRagged ==
    <<<<<<"N", "a", "m", "e">>, <<"A", "g", "e">>>>,
     <<<<"x", "1">>>>>>

TableAB ==
    <<<<<<"A">>, <<"B">>>>,
     <<<<"1">>, <<"2">>>>>>

TableXY ==
    <<<<<<"X">>, <<"Y">>>>,
     <<<<"3">>, <<"4">>>>>>

EmptyTable == <<>>

\* what page.extract_tables() may yield for a single document
RawTables ==
    {TablePeople, TablePeopleMore, TableSymbols, TableBlankName, TableLongName,
     TableNoneName, TableTwins, TableTwinsMore, TableHeaderOnly, TableRagged,
     EmptyTable}

\* what it may yield for the documents of a batch
BatchRawTables == {TableAB, TableXY}

PathXR == << <<"x">>, <<"r", ".", "p", "d", "f">> >>

PathYR == << <<"y">>, <<"r", ".", "p", "d", "f">> >>

\* paths of PDFs extracted from an archive
PdfPaths == {PathXR, PathYR}

\* pdf_file.filename of an upload: none, a bare name, a name with directories
UploadNames ==
    {<<>>,
     << <<"r", ".", "p", "d", "f">> >>,
     << <<"d">>, <<".">>, <<"r", ".", "p", "d", "f">> >>}

\* a path the caller already tracks before the call
PriorFile == << <<"o", "l", "d", ".", "c", "s", "v">> >>

PdfUrls ==
    {<<"h", "t", "t", "p", ":", "/", "/", "h", "/", "r", ".", "p", "d", "f", "?", "x", "=", "1">>,
     <<"h", "t", "t", "p", ":", "/", "/", "h", "/", "d", "/">>,
     <<"h", "t", "t", "p", ":", "/", "/", "h", "/", "a", ".", "b", ".", "p", "d", "f">>}

PageUrls ==
    {<<"h", "t", "t", "p", ":", "/", "/", "h", "/", "d", "o", "c", "s">>,
     <<"h", "t", "t", "p", ":", "/", "/", "h", "/", "d", "o", "c", "s", "/">>}

Hrefs ==
    {<<"r", "e", "p", "o", "r", "t", ".", "p", "d", "f">>,
     <<"h", "t", "t", "p", ":", "/", "/", "x", "/", "f", ".", "P", "D", "F">>,
     <<"/", "a", ".", "p", "d", "f">>,
     <<"i", "n", "d", "e", "x", ".", "h", "t", "m", "l">>}

\* response statuses a server may answer with
Statuses == {200, 201, 204, 206, 404, 500}

Bodies == {"bytes1", "bytes2"}

ColumnsMatchCalls ==
    {[op |-> "columns_match", cols1 |-> a, cols2 |-> b] : a \in Headers, b \in Headers}

DownloadCalls == {[op |-> "download_pdf_from_url", url |-> u] : u \in PdfUrls}

LinkCalls == {[op |-> "find_pdf_links_on_webpage", url |-> u] : u \in PageUrls}

SingleDocCalls ==
    {[op |-> "process_extracted_pdfs", pdf_file_paths |-> <<PathXR>>]}

BatchCalls ==
    {[op |-> "process_extracted_pdfs", pdf_file_paths |-> l] :
        l \in SeqsUpTo(PdfPaths, MaxDocs)}

UploadCalls ==
    {[op |-> "process_uploaded_pdf", filename |-> f, content |-> b] :
        f \in UploadNames, b \in {"bytes1"}}

-----------------------------------------------------------------------------
(* State                                                                    *)

NoValue == [kind |-> "none"]

Returned(v) == [kind |-> "value", value |-> v]

Raised(e) == [kind |-> "raise", error |-> e]

NoFiles == [p \in {} |-> NoValue]

\* the state in which invocation c starts, with backend b and tracking set cf
Start(c, b, cf) ==
    /\ call = c
    /\ backend = b
    /\ pc = "call"
    /\ ret = NoValue
    /\ files = NoFiles
    /\ created_files = cf
    /\ doc_i = 0
    /\ file_path = <<>>
    /\ yielded = <<>>
    /\ tables = <<>>
    /\ groups = <<>>
    /\ generated_csvs = <<>>
    /\ infos = <<>>
    /\ resp = NoValue

\* one call of columns_match, of a fetcher, or of process_extracted_pdfs on a
\* single document whose tables are drawn from RawTables
Init ==
    \E c \in ColumnsMatchCalls \cup DownloadCalls \cup LinkCalls \cup SingleDocCalls :
        Start(c, [tables |-> RawTables, max |-> MaxTables], {})

\* one call of process_extracted_pdfs on a list of documents, or of
\* process_uploaded_pdf, the tables drawn from BatchRawTables
InitBatch ==
    \E c \in BatchCalls \cup UploadCalls :
        Start(c, [tables |-> BatchRawTables, max |-> MaxBatchTables], {PriorFile})

pdfVars == <<file_path, yielded, tables, groups, generated_csvs>>

-----------------------------------------------------------------------------
(* columns_match and the fetchers                                           *)

ColumnsMatch ==
    /\ pc = "call"
    /\ call.op = "columns_match"
    /\ ret' = Returned(columns_match(call.cols1, call.cols2))
    /\ pc' = "done"
    /\ UNCHANGED <<call, backend, files, created_files, doc_i, pdfVars, infos, resp>>

\* download_pdf_from_url with output_dir left at None
DownloadPdfFromUrl ==
    /\ pc = "call"
    /\ call.op = "download_pdf_from_url"
    /\ \E status \in Statuses, body \in Bodies :
        LET path == PathJoin(TempDir, DownloadFilename(call.url)) IN
        /\ resp' = [status |-> status, body |-> body]
        /\ IF FetchFailed(status)
           THEN /\ ret' = Raised("Exception")
                /\ files' = files
           ELSE /\ files' = (path :> [kind |-> "pdf", bytes |-> body]) @@ files
                /\ ret' = Returned(path)
    /\ pc' = "done"
    /\ UNCHANGED <<call, backend, created_files, doc_i, pdfVars, infos>>

FindPdfLinksOnWebpage ==
    /\ pc = "call"
    /\ call.op = "find_pdf_links_on_webpage"
    /\ \E status \in Statuses, hrefs \in SeqsUpTo(Hrefs, MaxAnchors) :
        /\ resp' = [status |-> status, body |-> hrefs]
        /\ IF FetchFailed(status)
           THEN ret' = Raised("Exception")
           ELSE \E l \in ListOfSet(Range(PdfLinks(call.url, hrefs))) :
                    ret' = Returned(l)
    /\ pc' = "done"
    /\ UNCHANGED <<call, backend, files, created_files, doc_i, pdfVars, infos>>

-----------------------------------------------------------------------------
(* The orchestrators                                                        *)

\* temp_pdf_filename of an upload
TempPdfFilename(filename) ==
    IF filename # <<>>
    THEN <<<<"u", "p", "l", "o", "a", "d", "e", "d", "_">> \o filename[1]>> \o Tail(filename)
    ELSE <<<<"u", "p", "l", "o", "a", "d", "e", "d", "_", "f", "i", "l", "e", ".", "p", "d", "f">>>>

\* process_uploaded_pdf up to its call of process_pdf: the upload is staged
\* and tracked; open() raises when the name points into a directory that
\* does not exist
StageUpload ==
    /\ pc = "call"
    /\ call.op = "process_uploaded_pdf"
    /\ LET temp == TempPdfFilename(call.filename) IN
       \/ /\ Len(temp) > 1
          /\ ret' = Raised("FileNotFoundError")
          /\ pc' = "raised"
          /\ UNCHANGED <<files, created_files, file_path>>
       \/ /\ files' = (NormPath(temp) :> [kind |-> "pdf", bytes |-> call.content]) @@ files
          /\ created_files' = created_files \cup {NormPath(temp)}
          /\ file_path' = temp
          /\ pc' = "text"
          /\ ret' = ret
    /\ UNCHANGED <<call, backend, doc_i, yielded, tables, groups, generated_csvs, infos, resp>>

\* process_extracted_pdfs: extracted_infos = []
StartExtracted ==
    /\ pc = "call"
    /\ call.op = "process_extracted_pdfs"
    /\ infos' = <<>>
    /\ doc_i' = 1
    /\ pc' = "loop"
    /\ UNCHANGED <<call, backend, ret, files, created_files, pdfVars, resp>>

\* the for loop of process_extracted_pdfs takes its next document and calls
\* process_pdf on it
EnterDocument ==
    /\ pc = "loop"
    /\ doc_i <= Len(call.pdf_file_paths)
    /\ file_path' = call.pdf_file_paths[doc_i]
    /\ pc' = "text"
    /\ UNCHANGED <<call, backend, ret, files, created_files, doc_i, yielded, tables,
                   groups, generated_csvs, infos, resp>>

\* the for loop is exhausted: return extracted_infos
ReturnExtracted ==
    /\ pc = "loop"
    /\ doc_i > Len(call.pdf_file_paths)
    /\ ret' = Returned(infos)
    /\ pc' = "done"
    /\ UNCHANGED <<call, backend, files, created_files, doc_i, pdfVars, infos, resp>>

\* the record an orchestrator builds for one CSV (filename, source_pdf, shape
\* and source; columns, sample_data and description are left out)
Info(csv_path, source_pdf, source) ==
    [filename |-> csv_path, source_pdf |-> source_pdf,
     shape |-> ReadCsvShape(files[NormPath(csv_path)]), source |-> source]

\* created_files after the inner loop of process_extracted_pdfs
TrackedAfter(cf, csv_files) ==
    cf \cup {NormPath(csv_files[k]) : k \in DOMAIN csv_files}

\* process_pdf has returned csv_files: the "for csv_path in csv_files" loop
\* of the orchestrator, and, for an upload, its return
CollectInfos ==
    /\ pc = "records"
    /\ \/ /\ call.op = "process_extracted_pdfs"
          /\ infos' = infos \o [k \in DOMAIN generated_csvs |->
                                   Info(generated_csvs[k], file_path, "archive_extraction")]
          /\ created_files' = TrackedAfter(created_files, generated_csvs)
          /\ doc_i' = doc_i + 1
          /\ pc' = "loop"
          /\ ret' = ret
       \/ /\ call.op = "process_uploaded_pdf"
          /\ infos' = infos \o [k \in DOMAIN generated_csvs |->
                                   Info(generated_csvs[k], file_path, "uploaded_pdf")]
          /\ ret' = Returned(infos')
          /\ pc' = "done"
          /\ UNCHANGED <<created_files, doc_i>>
    /\ UNCHANGED <<call, backend, files, pdfVars, resp>>

-----------------------------------------------------------------------------
(* process_pdf, called with output_dir left at None                         *)

\* process_pdf returns csvs to the orchestrator
ReturnCsvs(csvs) ==
    /\ generated_csvs' = csvs
    /\ pc' = "records"

\* the backend's record for the process_pdf call under way
Current == yielded[Len(yielded)]

\* the backend yields one more raw table to the call under way
Yield(table) ==
    yielded' = [yielded EXCEPT ![Len(yielded)].raw = Append(@, table)]

\* an exception leaves Step 2's try block
Throw == yielded' = [yielded EXCEPT ![Len(yielded)].raised = TRUE]

\* Step 1: the plain text is extracted, or the attempt fails and the
\* exception is swallowed; neither changes what follows
ExtractText ==
    /\ pc = "text"
    /\ pc' = "extract"
    /\ yielded' = Append(yielded, [path |-> file_path, raw |-> <<>>, raised |-> FALSE])
    /\ tables' = <<>>
    /\ groups' = <<>>
    /\ generated_csvs' = <<>>
    /\ UNCHANGED <<call, backend, ret, files, created_files, doc_i, file_path, infos, resp>>

\* Step 2, one iteration of "for table in page_tables" (the pages' tables
\* taken in document order): a qualifying table becomes a DataFrame and is
\* appended; a ValueError from the DataFrame constructor is caught like any
\* other exception of the step
ExtractTable ==
    /\ pc = "extract"
    /\ Len(Current.raw) < backend.max
    /\ \E table \in backend.tables :
        IF Qualifies(table)
        THEN IF DataFrameRaises(table)
             THEN /\ ReturnCsvs(<<>>)
                  /\ yielded' = [yielded EXCEPT ![Len(yielded)].raw = Append(@, table),
                                                ![Len(yielded)].raised = TRUE]
                  /\ UNCHANGED tables
             ELSE /\ tables' = Append(tables, DataFrame(table))
                  /\ Yield(table)
                  /\ UNCHANGED <<pc, generated_csvs>>
        ELSE /\ Yield(table)
             /\ UNCHANGED <<pc, tables, generated_csvs>>
    /\ UNCHANGED <<call, backend, ret, files, created_files, doc_i, file_path, groups,
                   infos, resp>>

\* the except clause missing: the exception leaves process_pdf
ExtractRaisesUncaught ==
    /\ pc = "extract"
    /\ Throw
    /\ ret' = Raised("PDFSyntaxError")
    /\ pc' = "raised"
    /\ UNCHANGED <<call, backend, files, created_files, doc_i, file_path,
                   tables, groups, generated_csvs, infos, resp>>

\* Step 2: pdfplumber raises (on open, on a page, on a table): the except
\* clause returns []
ExtractRaises ==
    /\ pc = "extract"
    /\ Throw
    /\ ReturnCsvs(<<>>)
    /\ UNCHANGED <<call, backend, ret, files, created_files, doc_i, file_path,
                   tables, groups, infos, resp>>

\* Step 2 ends: "if not tables: return []", else on to grouping
ExtractEnd ==
    /\ pc = "extract"
    /\ IF tables = <<>>
       THEN ReturnCsvs(<<>>)
       ELSE /\ pc' = "group"
            /\ generated_csvs' = generated_csvs
    /\ UNCHANGED <<call, backend, ret, files, created_files, doc_i, file_path, yielded,
                   tables, groups, infos, resp>>

\* Step 3, one iteration of "for tbl in raw_tables"
GroupTable ==
    /\ pc = "group"
    /\ LET i == Placed(groups) + 1 IN
       /\ groups' = GroupStep(groups, RawTable(i, tables[i]))
       /\ pc' = IF i = Len(tables) THEN "write" ELSE "group"
    /\ UNCHANGED <<call, backend, ret, files, created_files, doc_i, file_path, yielded,
                   tables, generated_csvs, infos, resp>>

\* Step 4, one iteration of "for g_idx, grp in enumerate(groups, start=1)";
\* an exception of pd.concat is caught nowhere and ends the whole call
WriteGroup ==
    /\ pc = "write"
    /\ LET g_idx == Len(generated_csvs) + 1
           grp == groups[g_idx]
           csv_filename == CsvFilename(TempDir, BaseName(file_path), grp, g_idx, Len(groups))
       IN IF ConcatRaises(MemberFrames(grp))
          THEN /\ ret' = Raised("InvalidIndexError")
               /\ pc' = "raised"
               /\ UNCHANGED <<files, generated_csvs>>
          ELSE /\ files' = (NormPath(csv_filename) :> CsvFile(Concat(MemberFrames(grp)))) @@ files
               /\ generated_csvs' = Append(generated_csvs, csv_filename)
               /\ pc' = IF g_idx = Len(groups) THEN "records" ELSE "write"
               /\ ret' = ret
    /\ UNCHANGED <<call, backend, created_files, doc_i, file_path, yielded, tables, groups,
                   infos, resp>>

-----------------------------------------------------------------------------
(* Specifications                                                           *)

ProcessPdf ==
    \/ ExtractText
    \/ ExtractTable
    \/ ExtractRaises
    \/ ExtractEnd
    \/ GroupTable
    \/ WriteGroup

Extracted ==
    \/ StartExtracted
    \/ EnterDocument
    \/ ReturnExtracted
    \/ CollectInfos

Next ==
    \/ ColumnsMatch
    \/ DownloadPdfFromUrl
    \/ FindPdfLinksOnWebpage
    \/ Extracted
    \/ ProcessPdf

NextBatch ==
    \/ StageUpload
    \/ StartExtracted
    \/ EnterDocument
    \/ ReturnExtracted
    \/ CollectInfos
    \/ ProcessPdf

Spec == Init /\ [][Next]_vars

SpecBatch == InitBatch /\ [][NextBatch]_vars

-----------------------------------------------------------------------------
(* Header matching                                                          *)

\* the string form of a column name, lower-cased and whitespace-trimmed
TrimmedLower(c) == Strip(Lower(Str(c)))

\* same length and, at every position, equal trimmed lower-cased forms
PositionalMatch(h1, h2) ==
    /\ Len(h1) = Len(h2)
    /\ \A i \in 1..Len(h1) : TrimmedLower(h1[i]) = TrimmedLower(h2[i])

MatchReturned(h1, h2, v) ==
    pc = "done" /\ call = [op |-> "columns_match", cols1 |-> h1, cols2 |-> h2]
        => ret = Returned(v)

\* C1: columns_match(h1, h2) is true exactly when the two headers have the
\* same length and agree position by position once each name is put in string
\* form, lower-cased and trimmed; ["Name"," age "] matches ["name","AGE"] but
\* neither the reordered ["age","name"] nor the shorter ["name"].
C1_ColumnsMatchPositional ==
    /\ pc = "done" /\ call.op = "columns_match"
        => ret = Returned(PositionalMatch(call.cols1, call.cols2))
    /\ MatchReturned(<<<<"N", "a", "m", "e">>, <<" ", "a", "g", "e", " ">>>>, <<<<"n", "a", "m", "e">>, <<"A", "G", "E">>>>, TRUE)
    /\ MatchReturned(<<<<"N", "a", "m", "e">>, <<" ", "a", "g", "e", " ">>>>, <<<<"a", "g", "e">>, <<"n", "a", "m", "e">>>>, FALSE)
    /\ MatchReturned(<<<<"N", "a", "m", "e">>, <<" ", "a", "g", "e", " ">>>>, <<<<"n", "a", "m", "e">>>>, FALSE)

\* a call on the example headers has returned true
C1_Witness ==
    /\ pc = "done"
    /\ call = [op |-> "columns_match", cols1 |-> <<<<"N", "a", "m", "e">>, <<" ", "a", "g", "e", " ">>>>, cols2 |-> <<<<"n", "a", "m", "e">>, <<"A", "G", "E">>>>]
    /\ ret = Returned(TRUE)

-----------------------------------------------------------------------------
(* Grouping                                                                 *)

\* the groups, by index, whose reference header matches header h
MatchingGroups(h) ==
    {j \in DOMAIN groups : PositionalMatch(h, groups[j].reference_columns)}

\* the table numbers of the members of group k, in member order
Members(k) == [i \in DOMAIN groups[k].tables |-> groups[k].tables[i].table_number]

Increasing(ns) == \A i, j \in DOMAIN ns : i < j => ns[i] < ns[j]

\* C2: the tables placed so far, taken in extraction order, each sit in the
\* first group whose reference header matches; a group's reference header is
\* that of its first member; groups are in first-seen order and members in
\* extraction order. T1(A), T2(B), T3(A) gives [A:{T1,T3}, B:{T2}].
C2_StableFirstMatchGrouping ==
    /\ \A k \in DOMAIN groups :
        /\ groups[k].tables # <<>>
        /\ groups[k].reference_columns = groups[k].tables[1].columns
        /\ Increasing(Members(k))
        /\ \A i \in DOMAIN groups[k].tables :
            LET t == groups[k].tables[i] IN
            /\ t.table_number \in DOMAIN tables
            /\ t = RawTable(t.table_number, tables[t.table_number])
            /\ k \in MatchingGroups(t.columns)
            /\ \A j \in MatchingGroups(t.columns) : k <= j
        /\ \A l \in DOMAIN groups : k < l => Members(k)[1] < Members(l)[1]
    /\ UNION {Range(Members(k)) : k \in DOMAIN groups} = 1..Placed(groups)
    /\ pc = "write" => Placed(groups) = Len(tables)
    /\ pc = "write" /\ tables = <<DataFrame(TablePeople), DataFrame(TableSymbols),
                                  DataFrame(TablePeopleMore)>>
        => /\ Len(groups) = 2
           /\ Members(1) = <<1, 3>>
           /\ Members(2) = <<2>>

\* T1(A), T2(B), T3(A) have been grouped
C2_Witness ==
    /\ pc = "write"
    /\ tables = <<DataFrame(TablePeople), DataFrame(TableSymbols), DataFrame(TablePeopleMore)>>
    /\ Len(groups) = 2
    /\ Members(1) = <<1, 3>>

-----------------------------------------------------------------------------
(* Merge                                                                    *)

\* the body rows of the members of grp, in member order
RECURSIVE BodiesOf(_)
BodiesOf(members) ==
    IF members = <<>> THEN <<>>
    ELSE Head(members).dataframe.rows \o BodiesOf(Tail(members))

\* what the file written for group g holds
Written(g) == files[NormPath(generated_csvs[g])]

\* C3: the table written for a group has exactly the group's reference header
\* as its columns and, as its body, the member tables' body rows in member
\* order and then row order, nothing added, dropped or reordered.
C3_MergedIsConcatenation ==
    pc \in {"write", "records"} =>
        \A g \in DOMAIN generated_csvs :
            /\ Written(g).columns = groups[g].reference_columns
            /\ Written(g).rows = BodiesOf(groups[g].tables)

-----------------------------------------------------------------------------
(* File names                                                               *)

\* s with every maximal run of characters outside [A-Za-z0-9_] replaced by
\* one underscore: a character of the class stays, the first character of a
\* run becomes the underscore, the rest of the run goes
RECURSIVE RunsCollapsed(_, _)
RunsCollapsed(s, i) ==
    IF i > Len(s) THEN <<>>
    ELSE (IF s[i] \in SafeChars THEN <<s[i]>>
          ELSE IF i = 1 \/ s[i - 1] \in SafeChars THEN <<"_">> ELSE <<>>)
         \o RunsCollapsed(s, i + 1)

\* the fragment as the naming rule states it, without the fallback
PlainFragment(name) ==
    LET c == RunsCollapsed(Str(name), 1) IN
    IF Len(c) > 20 THEN SubSeq(c, 1, 20) ELSE c

\* {base}_{fragment}_{i}.csv in the output directory
NumberedName(base, fragment, i) ==
    Append(TempDir, base \o <<"_">> \o fragment \o <<"_">> \o IntStr(i) \o CsvExt)

\* {base}.csv in the output directory
SingleName(base) == Append(TempDir, base \o CsvExt)

\* the base of the document the call under way works on: its file name
\* without the extension
DocBase == SplitExtRoot(file_path[Len(file_path)])

\* the files written so far bear the names the rule gives, fragments by frag
NamedBy(frag(_)) ==
    /\ pc \in {"write", "records"} =>
        \A g \in DOMAIN generated_csvs :
            generated_csvs[g] =
                IF Len(groups) = 1 THEN SingleName(DocBase)
                ELSE NumberedName(DocBase, frag(groups[g].reference_columns[1]), g)
    /\ pc = "records" => Len(generated_csvs) = Len(groups)

\* C4 as stated: one group gives {base}.csv; several give
\* {base}_{fragment}_{i}.csv with i the 1-based creation index and fragment
\* the first column name, runs outside [A-Za-z0-9_] collapsed to "_", cut to
\* 20 characters; one path per group, in creation order.
C4_NamesAsStated == NamedBy(PlainFragment)

\* the fragment with the fallback of the code: "group" when it comes out empty
FragmentOrGroup(name) ==
    IF PlainFragment(name) = <<>> THEN <<"g", "r", "o", "u", "p">> ELSE PlainFragment(name)

\* C4 amended: as C4, except that an empty fragment is replaced by "group".
C4_NamesWithFallback == NamedBy(FragmentOrGroup)

\* two groups were written, one of them under the long first column name,
\* whose fragment is cut to 20 characters
C4_Witness ==
    /\ pc = "records"
    /\ Len(generated_csvs) = 2
    /\ groups[1].reference_columns = TableLongName[1]
    /\ groups[2].reference_columns = TablePeople[1]
    /\ generated_csvs[1] = NumberedName(<<"r">>, <<"Q", "u", "a", "n", "t", "i", "t", "y", "_", "p", "e", "r", "_", "u", "n", "i", "t", "_", "k", "g">>, 1)
    /\ generated_csvs[2] = NumberedName(<<"r">>, <<"N", "a", "m", "e">>, 2)

\* a non-empty name made of characters outside [A-Za-z0-9_] only
AllSymbol(name) == name # <<>> /\ \A i \in DOMAIN name : name[i] \notin SafeChars

\* C5 as stated: with several groups, a group whose first column name is
\* all-symbol is written to {base}_group_{index}.csv.
C5_AllSymbolGivesGroup ==
    pc \in {"write", "records"} /\ Len(groups) > 1 =>
        \A g \in DOMAIN generated_csvs :
            AllSymbol(Str(groups[g].reference_columns[1]))
                => generated_csvs[g] = NumberedName(DocBase, <<"g", "r", "o", "u", "p">>, g)

\* C5 amended: with several groups, a group whose first column name is the
\* empty string is written to {base}_group_{index}.csv, and a group whose
\* first column name is all-symbol is written to {base}___{index}.csv, its
\* fragment being the single underscore.
C5_EmptyGivesGroup ==
    pc \in {"write", "records"} /\ Len(groups) > 1 =>
        \A g \in DOMAIN generated_csvs :
            /\ Str(groups[g].reference_columns[1]) = <<>>
                => generated_csvs[g] = NumberedName(DocBase, <<"g", "r", "o", "u", "p">>, g)
            /\ AllSymbol(Str(groups[g].reference_columns[1]))
                => generated_csvs[g] = NumberedName(DocBase, <<"_">>, g)

\* two groups were written: one with the empty first column name, one with
\* the all-symbol name "#$"
C5_Witness ==
    /\ pc = "records"
    /\ Len(generated_csvs) = 2
    /\ groups[1].reference_columns = TableBlankName[1]
    /\ groups[2].reference_columns = TableSymbols[1]
    /\ generated_csvs[1] = NumberedName(<<"r">>, <<"g", "r", "o", "u", "p">>, 1)

-----------------------------------------------------------------------------
(* Tracking of created files                                                *)

\* C6: when process_uploaded_pdf or process_extracted_pdfs has returned,
\* every path the call wrote is in created_files, and what was in
\* created_files before the call still is.
C6_WrittenPathsTracked ==
    pc = "done" =>
        /\ DOMAIN files \subseteq created_files
        /\ PriorFile \in created_files

-----------------------------------------------------------------------------
(* Fetch status                                                             *)

Fetchers == {"download_pdf_from_url", "find_pdf_links_on_webpage"}

\* C7: both fetchers take every 2xx status as success (the body is written to
\* disk, or parsed, and a result returned) and every other status as a
\* failure that raises, writes no file and returns nothing.
C7_Any2xxSucceeds ==
    pc = "done" /\ call.op \in Fetchers =>
        IF resp.status \in 200..299
        THEN /\ ret.kind = "value"
             /\ call.op = "download_pdf_from_url" =>
                    /\ ret.value \in DOMAIN files
                    /\ files[ret.value].bytes = resp.body
        ELSE /\ ret.kind = "raise"
             /\ files = NoFiles

-----------------------------------------------------------------------------
(* Tables without a body, documents without tables                          *)

\* the raw tables among ts that have a header row and at least one body row
RECURSIVE WithBody(_)
WithBody(ts) ==
    IF ts = <<>> THEN <<>>
    ELSE IF Len(Head(ts)) >= 2
         THEN <<Head(ts)>> \o WithBody(Tail(ts))
         ELSE WithBody(Tail(ts))

RECURSIVE RowCount(_)
RowCount(members) ==
    IF members = <<>> THEN 0
    ELSE Len(Head(members).dataframe.rows) + RowCount(Tail(members))

\* C8: a raw table with fewer than 2 rows never enters grouping: the tables
\* kept are exactly the yielded tables that have a body, every group member is
\* one of them, and a CSV holds as many rows as its members' bodies; a
\* document without any such table ends with no file written and an empty
\* list returned, not with an exception.
C8_HeaderOnlyTablesExcluded ==
    yielded # <<>> =>
        /\ ~Current.raised /\ pc \in {"extract", "group", "write", "records"} =>
            /\ Len(tables) = Len(WithBody(Current.raw))
            /\ \A i \in DOMAIN tables :
                /\ tables[i].columns = WithBody(Current.raw)[i][1]
                /\ Len(tables[i].rows) = Len(WithBody(Current.raw)[i]) - 1
        /\ \A k \in DOMAIN groups : \A i \in DOMAIN groups[k].tables :
            /\ groups[k].tables[i].dataframe.rows # <<>>
            /\ \E t \in Range(WithBody(Current.raw)) :
                groups[k].tables[i].columns = t[1]
        /\ pc \in {"write", "records"} =>
            \A g \in DOMAIN generated_csvs :
                Len(Written(g).rows) = RowCount(groups[g].tables)
        /\ WithBody(Current.raw) = <<>> =>
            /\ groups = <<>>
            /\ generated_csvs = <<>>
            /\ files = NoFiles
            /\ pc # "raised"
            /\ pc = "done" => ret = Returned(<<>>)

\* a document that yielded a header-only table and an empty table, and
\* nothing else, has been processed
C8_Witness ==
    /\ pc = "done"
    /\ yielded # <<>>
    /\ ~Current.raised
    /\ Current.raw = <<TableHeaderOnly, EmptyTable>>
    /\ ret = Returned(<<>>)
    /\ files = NoFiles

-----------------------------------------------------------------------------
(* A failing extraction                                                     *)

\* the number of CSVs document d is due: none when its extraction raised,
\* else one per distinct trimmed lower-cased header among its tables
CsvsDue(d) ==
    IF yielded[d].raised THEN 0
    ELSE Cardinality({[i \in DOMAIN t[1] |-> TrimmedLower(t[1][i])] :
                        t \in Range(WithBody(yielded[d].raw))})

\* the source_pdf of the records due up to document n, in input order
RECURSIVE SourcesDue(_)
SourcesDue(n) ==
    IF n = 0 THEN <<>>
    ELSE SourcesDue(n - 1) \o [k \in 1..CsvsDue(n) |-> call.pdf_file_paths[n]]

\* the documents whose process_pdf call has returned and been collected
Collected == IF pc \in {"text", "loop", "done"} THEN Len(yielded) ELSE Len(yielded) - 1

\* C9: when the extraction of a document raises, process_pdf returns an empty
\* list and writes no CSV for it, whatever tables it had extracted; in
\* process_extracted_pdfs the call does not end there: that document adds no
\* record and the documents after it are processed, in input order.
C9_FailedExtractionIsolated ==
    /\ [](pc = "raised" /\ yielded # <<>> => ~Current.raised)
    /\ [](pc = "records" /\ Current.raised => generated_csvs = <<>>)
    /\ [][pc = "extract" /\ pc' = "records" => files' = files]_vars
    /\ [](call.op = "process_extracted_pdfs" /\ yielded # <<>> =>
            /\ \A d \in DOMAIN yielded : yielded[d].path = call.pdf_file_paths[d]
            /\ [k \in DOMAIN infos |-> infos[k].source_pdf] = SourcesDue(Collected)
            /\ pc = "done" => /\ Len(yielded) = Len(call.pdf_file_paths)
                              /\ ret = Returned(infos))

\* a batch of two documents has returned: the extraction of the first raised
\* after a table had been extracted, the second gave a record
C9_Witness ==
    /\ pc = "done"
    /\ call.op = "process_extracted_pdfs"
    /\ Len(yielded) = 2
    /\ yielded[1].raised
    /\ yielded[1].raw = <<TableAB>>
    /\ ~yielded[2].raised
    /\ Len(ret.value) = 1
    /\ ret.value[1].source_pdf = call.pdf_file_paths[2]

-----------------------------------------------------------------------------
(* Files of different documents                                             *)

\* no path occurs twice in the input list
DistinctPaths ==
    \A i, j \in DOMAIN call.pdf_file_paths :
        i # j => call.pdf_file_paths[i] # call.pdf_file_paths[j]

\* C10: when process_extracted_pdfs has returned from a list of distinct
\* paths, the records' file names are pairwise distinct and the file each
\* record names still is the one the record was made from.
C10_NoOverwriteAcrossDocuments ==
    pc = "done" /\ call.op = "process_extracted_pdfs" /\ DistinctPaths =>
        /\ \A i, j \in DOMAIN infos : i # j => infos[i].filename # infos[j].filename
        /\ \A i \in DOMAIN infos :
            ReadCsvShape(files[NormPath(infos[i].filename)]) = infos[i].shape

====
